---- MODULE Spec2Model ----
(***************************************************************************)
(* Model of graph-subscriptions-rs/src/lib.rs: the TicketPayload ticket    *)
(* protocol (canonical verification message, sign, verify, encode to and   *)
(* decode from the base64 ticket string) and the Subscription conversion.  *)
(*                                                                         *)
(* Representation.  A byte is a number in 0..255; a byte buffer, a String  *)
(* and a ticket string are sequences of bytes (a String is its UTF-8       *)
(* bytes, a ticket string its ASCII codes).  A u64 is its 8 big-endian     *)
(* bytes, so that the whole 64-bit range is covered.  Option<T> is <<>>    *)
(* for None and <<v>> for Some(v).  A Result is a record with a field ok   *)
(* and either the value or the error's outermost context in field err.     *)
(***************************************************************************)
EXTENDS Integers, Sequences, FiniteSets, TLC

None == <<>>
Some(v) == <<v>>
IsSome(o) == o # <<>>
Unwrap(o) == o[1]

Min(a, b) == IF a < b THEN a ELSE b

Take(s, n) == SubSeq(s, 1, n)
Drop(s, n) == SubSeq(s, n + 1, Len(s))
Zeros(n) == [i \in 1..n |-> 0]

\* 2^n for the small exponents the codecs use.
Pow2(n) == CASE n = 0 -> 1 [] n = 1 -> 2 [] n = 2 -> 4 [] n = 3 -> 8
             [] n = 4 -> 16 [] n = 5 -> 32 [] n = 6 -> 64 [] n = 7 -> 128
             [] n = 8 -> 256 [] n = 10 -> 1024

(***************************************************************************)
(* Unsigned integers as big-endian byte strings.                           *)
(***************************************************************************)
IsZero(b) == \A i \in 1..Len(b) : b[i] = 0

\* Lexicographic order on equally long big-endian byte strings.
RECURSIVE LessEq(_, _)
LessEq(a, b) ==
    IF Len(a) = 0 THEN TRUE
    ELSE IF a[1] # b[1] THEN a[1] < b[1]
    ELSE LessEq(Tail(a), Tail(b))

\* Long division of a big-endian byte string by a small divisor:
\* <<quotient bytes, remainder>>.
RECURSIVE DivSmallFrom(_, _, _, _, _)
DivSmallFrom(b, d, i, rem, acc) ==
    IF i > Len(b) THEN <<acc, rem>>
    ELSE LET cur == rem * 256 + b[i]
         IN  DivSmallFrom(b, d, i + 1, cur % d, Append(acc, cur \div d))

DivSmall(b, d) == DivSmallFrom(b, d, 1, 0, <<>>)

\* A natural number below 2^31 as 8 big-endian bytes.
NatToU64(n) ==
    <<0, 0, 0, 0, (n \div 16777216) % 256, (n \div 65536) % 256,
      (n \div 256) % 256, n % 256>>

\* Rust's Display of an unsigned integer: decimal digits, no leading zeros.
RECURSIVE DecimalDigits(_)
DecimalDigits(b) ==
    IF IsZero(b) THEN <<>>
    ELSE LET qr == DivSmall(b, 10)
         IN  Append(DecimalDigits(qr[1]), 48 + qr[2])

Decimal(b) == IF IsZero(b) THEN <<48>> ELSE DecimalDigits(b)

(***************************************************************************)
(* Debug formatting of an Address ({:?}): "0x" and 40 lowercase hex        *)
(* digits.                                                                 *)
(***************************************************************************)
HexDigits == <<48, 49, 50, 51, 52, 53, 54, 55, 56, 57, 97, 98, 99, 100, 101, 102>>

AddressDebug(a) ==
    <<48, 120>> \o
    [i \in 1..(2 * Len(a)) |->
        LET byte == a[(i + 1) \div 2]
        IN  IF i % 2 = 1 THEN HexDigits[(byte \div 16) + 1]
            ELSE HexDigits[(byte % 16) + 1]]

(***************************************************************************)
(* base64, URL-safe alphabet, no padding (BASE64_URL_SAFE_NO_PAD).         *)
(***************************************************************************)
\* The symbol of a 6-bit value: A-Z, a-z, 0-9, '-', '_'.
B64Symbol(v) ==
    IF v < 26 THEN 65 + v
    ELSE IF v < 52 THEN 97 + (v - 26)
    ELSE IF v < 62 THEN 48 + (v - 52)
    ELSE IF v = 62 THEN 45 ELSE 95

\* The 6-bit value of a symbol, -1 for a byte outside the alphabet ('=' too).
B64Value(c) ==
    IF c >= 65 /\ c <= 90 THEN c - 65
    ELSE IF c >= 97 /\ c <= 122 THEN c - 97 + 26
    ELSE IF c >= 48 /\ c <= 57 THEN c - 48 + 52
    ELSE IF c = 45 THEN 62
    ELSE IF c = 95 THEN 63
    ELSE -1

Base64Encode(b) ==
    LET n == Len(b)
        at(k) == IF k <= n THEN b[k] ELSE 0
    IN  [j \in 1..((n * 4 + 2) \div 3) |->
            LET bit == 6 * (j - 1)
                k   == (bit \div 8) + 1
                o   == bit % 8
                w   == at(k) * 256 + at(k + 1)
            IN  B64Symbol((w \div Pow2(10 - o)) % 64)]

\* Fails on a symbol outside the alphabet, on a length of 1 mod 4 and on
\* non-zero trailing bits in the last symbol.
Base64Decode(s) ==
    LET m    == Len(s)
        n    == (m * 6) \div 8
        left == m * 6 - n * 8
        v(j) == IF j <= m THEN B64Value(s[j]) ELSE 0
    IN  IF \E j \in 1..m : B64Value(s[j]) = -1 THEN [ok |-> FALSE]
        ELSE IF m % 4 = 1 THEN [ok |-> FALSE]
        ELSE IF m > 0 /\ v(m) % Pow2(left) # 0 THEN [ok |-> FALSE]
        ELSE [ok |-> TRUE,
              bytes |-> [i \in 1..n |->
                  LET bit == 8 * (i - 1)
                      j   == (bit \div 6) + 1
                      o   == bit % 6
                      w   == v(j) * 64 + v(j + 1)
                  IN  (w \div Pow2(4 - o)) % 256]]

(***************************************************************************)
(* TicketPayload::verification_message.                                    *)
(***************************************************************************)
NL == 10

Line(label, value) == label \o value \o <<NL>>

\* "allowed_deployments: " etc.: the literal prefixes of the writeln! calls.
LblAllowedDeployments ==
    <<97, 108, 108, 111, 119, 101, 100, 95, 100, 101, 112, 108, 111, 121, 109,
      101, 110, 116, 115, 58, 32>>
LblAllowedDomains ==
    <<97, 108, 108, 111, 119, 101, 100, 95, 100, 111, 109, 97, 105, 110, 115,
      58, 32>>
LblAllowedSubgraphs ==
    <<97, 108, 108, 111, 119, 101, 100, 95, 115, 117, 98, 103, 114, 97, 112,
      104, 115, 58, 32>>
LblChainId == <<99, 104, 97, 105, 110, 95, 105, 100, 58, 32>>
LblContract == <<99, 111, 110, 116, 114, 97, 99, 116, 58, 32>>
LblName == <<110, 97, 109, 101, 58, 32>>
LblSigner == <<115, 105, 103, 110, 101, 114, 58, 32>>
LblUser == <<117, 115, 101, 114, 58, 32>>

\* verification_message with the lines in the declaration order of the fields.
MessageInDeclarationOrder(p) ==
    Line(LblChainId, Decimal(p.chain_id))
    \o Line(LblContract, AddressDebug(p.contract))
    \o Line(LblSigner, AddressDebug(p.signer))
    \o (IF IsSome(p.user) THEN Line(LblUser, AddressDebug(Unwrap(p.user))) ELSE <<>>)
    \o (IF IsSome(p.name) THEN Line(LblName, Unwrap(p.name)) ELSE <<>>)
    \o (IF IsSome(p.allowed_subgraphs)
        THEN Line(LblAllowedSubgraphs, Unwrap(p.allowed_subgraphs)) ELSE <<>>)
    \o (IF IsSome(p.allowed_deployments)
        THEN Line(LblAllowedDeployments, Unwrap(p.allowed_deployments)) ELSE <<>>)
    \o (IF IsSome(p.allowed_domains)
        THEN Line(LblAllowedDomains, Unwrap(p.allowed_domains)) ELSE <<>>)

\* verification_message without the line of name.
MessageWithoutName(p) ==
    (IF IsSome(p.allowed_deployments)
        THEN Line(LblAllowedDeployments, Unwrap(p.allowed_deployments)) ELSE <<>>)
    \o (IF IsSome(p.allowed_domains)
        THEN Line(LblAllowedDomains, Unwrap(p.allowed_domains)) ELSE <<>>)
    \o (IF IsSome(p.allowed_subgraphs)
        THEN Line(LblAllowedSubgraphs, Unwrap(p.allowed_subgraphs)) ELSE <<>>)
    \o Line(LblChainId, Decimal(p.chain_id))
    \o Line(LblContract, AddressDebug(p.contract))
    \o Line(LblSigner, AddressDebug(p.signer))
    \o (IF IsSome(p.user) THEN Line(LblUser, AddressDebug(Unwrap(p.user))) ELSE <<>>)

verification_message(p) ==
    (IF IsSome(p.allowed_deployments)
        THEN Line(LblAllowedDeployments, Unwrap(p.allowed_deployments)) ELSE <<>>)
    \o (IF IsSome(p.allowed_domains)
        THEN Line(LblAllowedDomains, Unwrap(p.allowed_domains)) ELSE <<>>)
    \o (IF IsSome(p.allowed_subgraphs)
        THEN Line(LblAllowedSubgraphs, Unwrap(p.allowed_subgraphs)) ELSE <<>>)
    \o Line(LblChainId, Decimal(p.chain_id))
    \o Line(LblContract, AddressDebug(p.contract))
    \o (IF IsSome(p.name) THEN Line(LblName, Unwrap(p.name)) ELSE <<>>)
    \o Line(LblSigner, AddressDebug(p.signer))
    \o (IF IsSome(p.user) THEN Line(LblUser, AddressDebug(Unwrap(p.user))) ELSE <<>>)

(***************************************************************************)
(* CBOR, as serde_cbor_2 writes and reads a TicketPayload.                 *)
(*                                                                         *)
(* Writing: the struct is a definite-length map from the field names (text *)
(* strings) to the values, in declaration order; a None field is skipped   *)
(* (skip_serializing_none) and not counted in the map's length; integers   *)
(* and lengths take the shortest head; an Address is a byte string of its  *)
(* 20 bytes (AddressBytes, not human readable).                            *)
(***************************************************************************)
AddressLen == 20

\* Field names in declaration order.
FieldNames ==
    << <<99, 104, 97, 105, 110, 95, 105, 100>>,
       <<99, 111, 110, 116, 114, 97, 99, 116>>,
       <<115, 105, 103, 110, 101, 114>>,
       <<117, 115, 101, 114>>,
       <<110, 97, 109, 101>>,
       <<97, 108, 108, 111, 119, 101, 100, 95, 115, 117, 98, 103, 114, 97, 112,
         104, 115>>,
       <<97, 108, 108, 111, 119, 101, 100, 95, 100, 101, 112, 108, 111, 121,
         109, 101, 110, 116, 115>>,
       <<97, 108, 108, 111, 119, 101, 100, 95, 100, 111, 109, 97, 105, 110,
         115>> >>
NumFields == 8

\* The head of an item: major type and a length or count below 2^31.
CborHead(major, n) ==
    IF n < 24 THEN <<major * 32 + n>>
    ELSE IF n < 256 THEN <<major * 32 + 24, n>>
    ELSE IF n < 65536 THEN <<major * 32 + 25, n \div 256, n % 256>>
    ELSE <<major * 32 + 26, (n \div 16777216) % 256, (n \div 65536) % 256,
           (n \div 256) % 256, n % 256>>

\* CborUint with the integer narrowed to 32 bits before it is written.
CborUintNarrow(u) ==
    IF IsZero(Take(u, 7)) THEN (IF u[8] < 24 THEN <<u[8]>> ELSE <<24, u[8]>>)
    ELSE IF IsZero(Take(u, 6)) THEN <<25>> \o Drop(u, 6)
    ELSE <<26>> \o Drop(u, 4)

\* An unsigned 64-bit integer in the shortest of the five forms.
CborUint(u) ==
    IF IsZero(Take(u, 7)) THEN (IF u[8] < 24 THEN <<u[8]>> ELSE <<24, u[8]>>)
    ELSE IF IsZero(Take(u, 6)) THEN <<25>> \o Drop(u, 6)
    ELSE IF IsZero(Take(u, 4)) THEN <<26>> \o Drop(u, 4)
    ELSE <<27>> \o u

CborText(s) == CborHead(3, Len(s)) \o s
CborBytes(b) == CborHead(2, Len(b)) \o b

CborField(i, value) == CborText(FieldNames[i]) \o value

CborOptField(i, o, enc) == IF IsSome(o) THEN CborField(i, enc) ELSE <<>>

NumPresent(p) ==
    3 + (IF IsSome(p.user) THEN 1 ELSE 0) + (IF IsSome(p.name) THEN 1 ELSE 0)
      + (IF IsSome(p.allowed_subgraphs) THEN 1 ELSE 0)
      + (IF IsSome(p.allowed_deployments) THEN 1 ELSE 0)
      + (IF IsSome(p.allowed_domains) THEN 1 ELSE 0)

\* serde_cbor_2::ser::to_vec(self) of the derived Serialize.
to_vec(p) ==
    CborHead(5, NumPresent(p))
    \o CborField(1, CborUint(p.chain_id))
    \o CborField(2, CborBytes(p.contract))
    \o CborField(3, CborBytes(p.signer))
    \o (IF IsSome(p.user) THEN CborField(4, CborBytes(Unwrap(p.user))) ELSE <<>>)
    \o (IF IsSome(p.name) THEN CborField(5, CborText(Unwrap(p.name))) ELSE <<>>)
    \o (IF IsSome(p.allowed_subgraphs)
        THEN CborField(6, CborText(Unwrap(p.allowed_subgraphs))) ELSE <<>>)
    \o (IF IsSome(p.allowed_deployments)
        THEN CborField(7, CborText(Unwrap(p.allowed_deployments))) ELSE <<>>)
    \o (IF IsSome(p.allowed_domains)
        THEN CborField(8, CborText(Unwrap(p.allowed_domains))) ELSE <<>>)

(***************************************************************************)
(* Reading.  Every reader takes the buffer and a position and returns      *)
(* [ok |-> FALSE] or [ok |-> TRUE, ..., next |-> position after the item]. *)
(***************************************************************************)
Fail == [ok |-> FALSE]

\* Bytes of the argument that follow the initial byte.
ArgLen(info) ==
    IF info < 24 THEN 0 ELSE IF info = 24 THEN 1 ELSE IF info = 25 THEN 2
    ELSE IF info = 26 THEN 4 ELSE 8

\* The initial byte and argument at pos.  arg is the argument as a u64, indef
\* marks additional information 31.
ItemHead(b, pos) ==
    IF pos > Len(b) THEN Fail
    ELSE LET major == b[pos] \div 32
             info  == b[pos] % 32
         IN  IF info >= 28 /\ info <= 30 THEN Fail
             ELSE IF info = 31
                 THEN [ok |-> TRUE, major |-> major, indef |-> TRUE,
                       arg |-> Zeros(8), next |-> pos + 1]
             ELSE IF pos + ArgLen(info) > Len(b) THEN Fail
             ELSE [ok |-> TRUE, major |-> major, indef |-> FALSE,
                   arg |-> IF info < 24 THEN NatToU64(info)
                           ELSE Zeros(8 - ArgLen(info))
                                \o SubSeq(b, pos + 1, pos + ArgLen(info)),
                   next |-> pos + 1 + ArgLen(info)]

\* A length or count as a number; -1 when it is 2^31 or more (no buffer of the
\* model is that long).
ToLen(arg) ==
    IF IsZero(Take(arg, 4)) /\ arg[5] < 128
    THEN arg[5] * 16777216 + arg[6] * 65536 + arg[7] * 256 + arg[8]
    ELSE -1

\* Tags are read and dropped before any value.
RECURSIVE SkipTags(_, _)
SkipTagsAt(b, pos, h) ==
    IF h.ok /\ h.major = 6 /\ ~h.indef THEN SkipTags(b, h.next) ELSE pos

SkipTags(b, pos) == SkipTagsAt(b, pos, ItemHead(b, pos))

\* str::from_utf8: well-formed UTF-8 (Unicode table 3-7).
RECURSIVE Utf8Valid(_, _)
Utf8Valid(s, i) ==
    IF i > Len(s) THEN TRUE
    ELSE LET c == s[i]
             cont(k, lo, hi) == i + k <= Len(s) /\ s[i + k] >= lo /\ s[i + k] <= hi
         IN  IF c < 128 THEN Utf8Valid(s, i + 1)
             ELSE IF c >= 194 /\ c <= 223
                 THEN cont(1, 128, 191) /\ Utf8Valid(s, i + 2)
             ELSE IF c >= 224 /\ c <= 239
                 THEN /\ cont(1, IF c = 224 THEN 160 ELSE 128, IF c = 237 THEN 159 ELSE 191)
                      /\ cont(2, 128, 191)
                      /\ Utf8Valid(s, i + 3)
             ELSE IF c >= 240 /\ c <= 244
                 THEN /\ cont(1, IF c = 240 THEN 144 ELSE 128, IF c = 244 THEN 143 ELSE 191)
                      /\ cont(2, 128, 191)
                      /\ cont(3, 128, 191)
                      /\ Utf8Valid(s, i + 4)
             ELSE FALSE

\* The n bytes of a definite-length string whose head is h.
ReadDefinite(b, h, n) ==
    IF n < 0 \/ h.next + n - 1 > Len(b) THEN Fail
    ELSE [ok |-> TRUE, major |-> h.major,
          data |-> SubSeq(b, h.next, h.next + n - 1), next |-> h.next + n]

\* The chunks of an indefinite-length string up to its break: definite
\* strings of the same major type.
RECURSIVE ReadChunks(_, _, _, _)
AppendChunk(b, major, acc, c) ==
    IF ~c.ok THEN Fail ELSE ReadChunks(b, c.next, major, acc \o c.data)

ReadChunksAt(b, major, acc, h) ==
    IF ~h.ok THEN Fail
    ELSE IF h.major = 7 /\ h.indef
        THEN [ok |-> TRUE, major |-> major, data |-> acc, next |-> h.next]
    ELSE IF h.major # major \/ h.indef THEN Fail
    ELSE AppendChunk(b, major, acc, ReadDefinite(b, h, ToLen(h.arg)))

ReadChunks(b, pos, major, acc) == ReadChunksAt(b, major, acc, ItemHead(b, pos))

\* A byte string or a text string (which must be UTF-8).
CheckText(r) ==
    IF ~r.ok THEN Fail
    ELSE IF r.major = 3 /\ ~Utf8Valid(r.data, 1) THEN Fail
    ELSE r

ReadStrHead(b, h) ==
    IF ~h.ok THEN Fail
    ELSE IF h.major # 2 /\ h.major # 3 THEN Fail
    ELSE CheckText(IF h.indef THEN ReadChunks(b, h.next, h.major, <<>>)
                   ELSE ReadDefinite(b, h, ToLen(h.arg)))

\* ReadStrAt reads at a position where the tags have been dropped.
ReadStrAt(b, pos) == ReadStrHead(b, ItemHead(b, pos))

ReadStr(b, pos) == ReadStrAt(b, SkipTags(b, pos))

\* Deserializer::remaining_depth: entering a container takes one from it
\* and fails when none is left.
RecursionLimit == 128

\* Any one item, its content ignored (serde's IgnoredAny).  more is the number
\* of items still to skip in the container that is open; inside an
\* indefinite container it is -1 in an array, -2 in a map where a key is
\* due and -3 in a map where a value is due, and the container ends at a
\* break, which no map accepts in the place of a value.  stack holds the
\* counts of the enclosing containers, the struct's map not included.
RECURSIVE SkipItems(_, _, _, _)
SkipAfterStr(b, s, rest, stack) ==
    IF ~s.ok THEN Fail ELSE SkipItems(b, s.next, rest, stack)

SkipContainer(b, h, n, rest, stack) ==
    IF Len(stack) + 2 >= RecursionLimit THEN Fail
    ELSE IF h.indef
        THEN SkipItems(b, h.next, IF h.major = 4 THEN -1 ELSE -2, <<rest>> \o stack)
    ELSE IF n < 0 \/ n > Len(b) THEN Fail
    ELSE SkipItems(b, h.next, (IF h.major = 4 THEN 1 ELSE 2) * n, <<rest>> \o stack)

\* pos0 is the position before the item's tags, pos the one after them, h the
\* head at pos, rest the items to skip after this one.
SkipItemHead(b, pos0, pos, h, more, rest, stack) ==
    IF ~h.ok THEN Fail
    ELSE IF h.major = 7 /\ h.indef
        THEN IF (more = -1 \/ more = -2) /\ pos = pos0
             THEN (IF stack = <<>> THEN [ok |-> TRUE, next |-> h.next]
                   ELSE SkipItems(b, h.next, Head(stack), Tail(stack)))
             ELSE Fail
    ELSE IF h.major = 0 \/ h.major = 1
        THEN IF h.indef THEN Fail ELSE SkipItems(b, h.next, rest, stack)
    ELSE IF h.major = 2 \/ h.major = 3
        THEN SkipAfterStr(b, ReadStrHead(b, h), rest, stack)
    ELSE IF h.major = 4 \/ h.major = 5
        THEN SkipContainer(b, h, ToLen(h.arg), rest, stack)
    ELSE IF h.major = 6 THEN Fail
    ELSE \* major 7: false, true, null, undefined and the floats
         IF b[pos] \in {244, 245, 246, 247, 249, 250, 251}
         THEN SkipItems(b, h.next, rest, stack)
         ELSE Fail

SkipItemAt(b, pos0, pos, more, stack) ==
    SkipItemHead(b, pos0, pos, ItemHead(b, pos), more,
                 IF more > 0 THEN more - 1
                 ELSE IF more = -2 THEN -3
                 ELSE IF more = -3 THEN -2
                 ELSE more,
                 stack)

SkipItems(b, pos0, more, stack) ==
    IF more = 0
    THEN IF stack = <<>> THEN [ok |-> TRUE, next |-> pos0]
         ELSE SkipItems(b, pos0, Head(stack), Tail(stack))
    ELSE SkipItemAt(b, pos0, SkipTags(b, pos0), more, stack)

Skip(b, pos) == SkipItems(b, pos, 1, <<>>)

\* u64: an unsigned integer of any width.
ReadU64Head(h) ==
    IF h.ok /\ h.major = 0 /\ ~h.indef
    THEN [ok |-> TRUE, value |-> h.arg, next |-> h.next]
    ELSE Fail

ReadU64(b, pos) == ReadU64Head(ItemHead(b, SkipTags(b, pos)))

\* The elements of an array read as u8, until count reaches 0 or, for count
\* -1, until the break.
RECURSIVE ReadU8Seq(_, _, _, _)
AppendU8(b, count, acc, e) ==
    IF ~e.ok THEN Fail
    ELSE IF ~IsZero(Take(e.value, 7)) THEN Fail
    ELSE IF Len(acc) >= AddressLen THEN Fail
    ELSE ReadU8Seq(b, e.next, IF count > 0 THEN count - 1 ELSE count,
                   Append(acc, e.value[8]))

ReadU8SeqAt(b, pos, count, acc, h) ==
    IF count = -1 /\ h.ok /\ h.major = 7 /\ h.indef
    THEN [ok |-> TRUE, value |-> acc, next |-> h.next]
    ELSE AppendU8(b, count, acc, ReadU64(b, pos))

ReadU8Seq(b, pos, count, acc) ==
    IF count = 0 THEN [ok |-> TRUE, value |-> acc, next |-> pos]
    ELSE ReadU8SeqAt(b, pos, count, acc, ItemHead(b, pos))

\* AddressBytes in binary mode (serde_with::Bytes into [u8; 20]): a byte
\* string, a text string or an array of u8, of exactly 20 bytes.
CheckAddress(r) ==
    IF ~r.ok THEN Fail
    ELSE IF Len(r.value) # AddressLen THEN Fail
    ELSE r

StrValue(s) ==
    IF s.ok THEN [ok |-> TRUE, value |-> s.data, next |-> s.next] ELSE Fail

ReadAddressHead(b, h) ==
    IF ~h.ok THEN Fail
    ELSE IF h.major = 4 /\ ~h.indef /\ ToLen(h.arg) < 0 THEN Fail
    ELSE CheckAddress(
            IF h.major = 4
            THEN ReadU8Seq(b, h.next,
                           IF h.indef THEN -1 ELSE Min(ToLen(h.arg), AddressLen + 1),
                           <<>>)
            ELSE StrValue(ReadStrHead(b, h)))

ReadAddress(b, pos) == ReadAddressHead(b, ItemHead(b, SkipTags(b, pos)))

\* String: a text string, or a byte string that is UTF-8.
CheckString(s) ==
    IF s.ok /\ Utf8Valid(s.data, 1)
    THEN [ok |-> TRUE, value |-> s.data, next |-> s.next]
    ELSE Fail

ReadString(b, pos) == CheckString(ReadStr(b, pos))

\* Field i (declaration order) read at pos: chain_id a u64, contract and
\* signer an address, user an optional address, the others optional strings.
\* An Option is None on null (0xf6).
FieldResult(i, r) ==
    IF ~r.ok THEN Fail
    ELSE IF i <= 3 THEN r
    ELSE [ok |-> TRUE, value |-> Some(r.value), next |-> r.next]

ReadFieldValue(b, pos, i) ==
    IF i > 3 /\ pos <= Len(b) /\ b[pos] = 246
    THEN [ok |-> TRUE, value |-> None, next |-> pos + 1]
    ELSE FieldResult(i, IF i = 1 THEN ReadU64(b, pos)
                        ELSE IF i <= 4 THEN ReadAddress(b, pos)
                        ELSE ReadString(b, pos))

\* A map key: a field name as text or bytes, or a field index.  field is 0
\* for a key that names no field (its value is ignored).
KeyOfStr(s) ==
    IF ~s.ok THEN Fail
    ELSE [ok |-> TRUE, next |-> s.next,
          field |-> IF \E i \in 1..NumFields : FieldNames[i] = s.data
                    THEN CHOOSE i \in 1..NumFields : FieldNames[i] = s.data
                    ELSE 0]

ReadKeyHead(b, h) ==
    IF ~h.ok THEN Fail
    ELSE IF h.major = 0 /\ ~h.indef
        THEN [ok |-> TRUE, next |-> h.next,
              field |-> IF IsZero(Take(h.arg, 7)) /\ h.arg[8] < NumFields
                        THEN h.arg[8] + 1 ELSE 0]
    ELSE KeyOfStr(ReadStrHead(b, h))

ReadKey(b, pos) == ReadKeyHead(b, ItemHead(b, SkipTags(b, pos)))

\* The entries of the map (derived visit_map): count entries, or for count -1
\* entries until the break.  slots[i] is <<>> until field i is read; a field
\* read twice is an error.
RECURSIVE ReadEntries(_, _, _, _)
AfterSkip(b, rest, slots, s) ==
    IF ~s.ok THEN Fail ELSE ReadEntries(b, s.next, rest, slots)

AfterValue(b, rest, slots, field, v) ==
    IF ~v.ok THEN Fail
    ELSE ReadEntries(b, v.next, rest, [slots EXCEPT ![field] = <<v.value>>])

ReadEntryValue(b, rest, slots, k) ==
    IF ~k.ok THEN Fail
    ELSE IF k.field = 0 THEN AfterSkip(b, rest, slots, Skip(b, k.next))
    ELSE IF slots[k.field] # <<>> THEN Fail
    ELSE AfterValue(b, rest, slots, k.field, ReadFieldValue(b, k.next, k.field))

ReadEntryAt(b, pos, count, slots, h) ==
    IF count = -1 /\ h.ok /\ h.major = 7 /\ h.indef
    THEN [ok |-> TRUE, slots |-> slots, next |-> h.next]
    ELSE ReadEntryValue(b, IF count > 0 THEN count - 1 ELSE count, slots,
                        ReadKey(b, pos))

ReadEntries(b, pos, count, slots) ==
    IF count = 0 THEN [ok |-> TRUE, slots |-> slots, next |-> pos]
    ELSE ReadEntryAt(b, pos, count, slots, ItemHead(b, pos))

\* The elements of an array (derived visit_seq): the fields in declaration
\* order.  Only user has a default; the sequence must hold all 8 elements.
RECURSIVE ReadElements(_, _, _, _)
AfterElement(b, i, slots, v) ==
    IF ~v.ok THEN Fail
    ELSE ReadElements(b, v.next, i + 1, [slots EXCEPT ![i] = <<v.value>>])

ReadElements(b, pos, i, slots) ==
    IF i > NumFields THEN [ok |-> TRUE, slots |-> slots, next |-> pos]
    ELSE AfterElement(b, i, slots, ReadFieldValue(b, pos, i))

CloseBreak(e, k) ==
    IF k.ok /\ k.major = 7 /\ k.indef
    THEN [ok |-> TRUE, slots |-> e.slots, next |-> k.next]
    ELSE Fail

CloseArray(b, h, e) ==
    IF ~e.ok THEN Fail
    ELSE IF h.indef THEN CloseBreak(e, ItemHead(b, e.next))
    ELSE IF ToLen(h.arg) = NumFields THEN e
    ELSE Fail

EmptySlots == [i \in 1..NumFields |-> <<>>]

OptSlot(slot) == IF slot = <<>> THEN None ELSE slot[1]

\* The struct from its slots, once the whole input has been read: chain_id,
\* contract and signer are required, an optional field not read is None.
FinishPayload(b, r) ==
    IF ~r.ok THEN Fail
    ELSE IF r.next # Len(b) + 1 THEN Fail
    ELSE IF r.slots[1] = <<>> \/ r.slots[2] = <<>> \/ r.slots[3] = <<>> THEN Fail
    ELSE [ok |-> TRUE,
          value |-> [chain_id |-> r.slots[1][1],
                     contract |-> r.slots[2][1],
                     signer |-> r.slots[3][1],
                     user |-> OptSlot(r.slots[4]),
                     name |-> OptSlot(r.slots[5]),
                     allowed_subgraphs |-> OptSlot(r.slots[6]),
                     allowed_deployments |-> OptSlot(r.slots[7]),
                     allowed_domains |-> OptSlot(r.slots[8])]]

\* The value whose head is h: a map (definite or indefinite) or an array.
ReadStruct(b, h) ==
    IF ~h.ok THEN Fail
    ELSE IF h.major # 4 /\ h.major # 5 THEN Fail
    ELSE IF ~h.indef /\ (ToLen(h.arg) < 0 \/ ToLen(h.arg) > Len(b)) THEN Fail
    ELSE FinishPayload(b,
            IF h.major = 5
            THEN ReadEntries(b, h.next, IF h.indef THEN -1 ELSE ToLen(h.arg),
                             EmptySlots)
            ELSE CloseArray(b, h, ReadElements(b, h.next, 1, EmptySlots)))

\* serde_cbor_2::de::from_reader::<TicketPayload>: one value, then the end
\* of the input.
from_reader(b) == ReadStruct(b, ItemHead(b, SkipTags(b, 1)))

(***************************************************************************)
(* The signing capability and address recovery (ethers: hash_message,      *)
(* Wallet::sign_hash, Signature::recover).  Keccak-256 and secp256k1 are   *)
(* not computed.  What the program takes from them is modelled as the      *)
(* ideal hash and the ideal signature:                                     *)
(*  - a digest stands for the bytes hashed, so that two digests are equal  *)
(*    exactly when the bytes hashed are;                                   *)
(*  - a wallet's signature is a value (r, s, v), 0 < r, s < n, s in the    *)
(*    lower half, v = 27 + recovery id; signing is deterministic, and the  *)
(*    signatures made for different keys or digests differ.  The ledger    *)
(*    records which wallet has signed which digest with which value;       *)
(*  - recovery checks v, r and s as the library does, and returns the      *)
(*    address of the wallet whose signature over this very digest the      *)
(*    ledger holds;                                                        *)
(*  - for every other signature and digest the answer of the recovery is   *)
(*    not computed: it is an error or the address of a key that no wallet  *)
(*    of the model holds, and an operation that recovers is taken with     *)
(*    each of these answers.                                               *)
(***************************************************************************)
SignatureLen == 65
ScalarLen == 32

\* ethers::utils::hash_message: the digest of
\* "\x19Ethereum Signed Message:\n" + decimal length + message.
EthMessagePrefix ==
    <<25, 69, 116, 104, 101, 114, 101, 117, 109, 32, 83, 105, 103, 110, 101,
      100, 32, 77, 101, 115, 115, 97, 103, 101, 58, 10>>

hash_message(msg) ==
    [keccak256 |-> EthMessagePrefix \o Decimal(NatToU64(Len(msg))) \o msg]

\* The addresses of the wallets of the model; the first is the wallet of
\* test_ticket.
WalletAddresses ==
    << <<144, 248, 191, 106, 71, 159, 50, 14, 173, 7, 68, 17, 164, 176, 231,
         148, 78, 168, 201, 193>>,
       <<255, 207, 143, 222, 231, 42, 193, 27, 92, 84, 36, 40, 179, 94, 239,
         87, 105, 196, 9, 240>>,
       <<34, 212, 145, 189, 226, 48, 63, 47, 67, 50, 91, 33, 8, 210, 111, 30,
         171, 161, 227, 43>> >>

\* Bound: the number of signing keys.
NumWallets == 2
Wallets == 1..NumWallets

WalletAddress(w) == WalletAddresses[w]

\* The order n of the group of secp256k1.
CurveOrder ==
    <<255, 255, 255, 255, 255, 255, 255, 255, 255, 255, 255, 255, 255, 255, 255,
      254, 186, 174, 220, 230, 175, 72, 160, 59, 191, 210, 94, 140, 208, 54, 65,
      65>>

\* n - s, for 0 < s < n: byte i of the difference borrows when the bytes of
\* s after i exceed those of n.
NegateS(s) ==
    [i \in 1..ScalarLen |->
        (CurveOrder[i] + 256 - s[i]
            - (IF LessEq(SubSeq(s, i + 1, ScalarLen), SubSeq(CurveOrder, i + 1, ScalarLen))
               THEN 0 ELSE 1)) % 256] \o <<>>

\* Signature <-> [u8; 65]: r, s, then v as one byte.
SignatureFromBytes(b) == [r |-> SubSeq(b, 1, 32), s |-> SubSeq(b, 33, 64), v |-> b[65]]
SignatureToVec(sig) == sig.r \o sig.s \o <<sig.v % 256>>

\* The value of the k-th signature made: values with different k differ in
\* r and in s, r is below n, s is in the lower half, and both recovery ids
\* occur.
SignatureValue(k) ==
    [r |-> [i \in 1..ScalarLen |->
               IF i = ScalarLen THEN k % 256 ELSE (37 * i + 11) % 256] \o <<>>,
     s |-> [i \in 1..ScalarLen |->
               IF i = ScalarLen THEN k % 256 ELSE (59 * i + 5) % 256] \o <<>>,
     v |-> 27 + ((k + 1) % 2)]

\* The entries of the ledger for a wallet and a digest (at most one).
SignedBy(ledger, w, hash) == {e \in ledger : e.wallet = w /\ e.hash = hash}

\* Wallet::sign_hash: the signature made before for this key and digest, or
\* a new value.
WalletSignHash(ledger, w, hash) ==
    IF SignedBy(ledger, w, hash) # {}
    THEN (CHOOSE e \in SignedBy(ledger, w, hash) : TRUE).signature
    ELSE SignatureValue(Cardinality(ledger) + 1)

\* The ledger after the wallet has signed the digest.
Signed(ledger, w, hash) ==
    ledger \cup {[wallet |-> w, hash |-> hash,
                  signature |-> WalletSignHash(ledger, w, hash)]}

\* ethers' normalize_recovery_id: 0, 1, 27, 28 and the EIP-155 values from
\* 35 on name a recovery id; 4 stands for the values that name none.
normalize_recovery_id(v) ==
    IF v = 0 \/ v = 27 THEN 0
    ELSE IF v = 1 \/ v = 28 THEN 1
    ELSE IF v >= 35 THEN (v - 1) % 2
    ELSE 4

\* The result of a fallible operation that fails, and of one that panics.
Err(e) == [ok |-> FALSE, err |-> e]
Panic == [ok |-> FALSE, err |-> "panicked: normalized recovery id always valid"]

\* The address of a key that no wallet of the model holds.
StrangerAddress ==
    <<85, 138, 191, 172, 3, 96, 17, 204, 61, 250, 9, 144, 73, 28, 199, 2, 116,
      230, 58, 171>>

\* The answers of the recovery for a signature and a digest that are not in
\* the ledger: it fails, or it yields the address of some other key.
UnknownRecoveries == {Err("recover"), [ok |-> TRUE, value |-> StrangerAddress]}

\* The library as a recovery sees it: the ledger, and its answer for what is
\* not in the ledger.
Ecdsa(ledger, unknown) == [ledger |-> ledger, unknown |-> unknown]

\* The entries of the ledger with this r, s and recovery id for this digest.
Issued(ledger, r, s, rid, hash) ==
    {e \in ledger : /\ e.hash = hash
                    /\ e.signature.r = r /\ e.signature.s = s
                    /\ e.signature.v = 27 + rid}

\* The key recovered from r, a low s and the recovery id: that of the
\* wallet that made them for this digest, if any.
RecoverKey(r, s, rid, hash, ecdsa) ==
    IF Issued(ecdsa.ledger, r, s, rid, hash) # {}
    THEN [ok |-> TRUE,
          value |-> WalletAddress(
              (CHOOSE e \in Issued(ecdsa.ledger, r, s, rid, hash) : TRUE).wallet)]
    ELSE ecdsa.unknown

\* as_signature, after from_scalars: a high s (s > n - s) is normalized to
\* n - s with the recovery id flipped.
RecoverNormalized(sig, rid, negated, hash, ecdsa) ==
    IF LessEq(sig.s, negated) THEN RecoverKey(sig.r, sig.s, rid, hash, ecdsa)
    ELSE RecoverKey(sig.r, negated, 1 - rid, hash, ecdsa)

\* Signature::recover: recovery_id() panics on a v that names no recovery
\* id (RecoveryId::from_byte(4).expect(..)); from_scalars rejects an r or s
\* that is zero or not below n; a high s is normalized; then the key is
\* recovered.
SignatureRecover(sig, hash, ecdsa) ==
    IF normalize_recovery_id(sig.v) = 4 THEN Panic
    ELSE IF \/ IsZero(sig.r) \/ IsZero(sig.s)
            \/ LessEq(CurveOrder, sig.r) \/ LessEq(CurveOrder, sig.s)
        THEN Err("recover")
    ELSE RecoverNormalized(sig, normalize_recovery_id(sig.v), NegateS(sig.s),
                           hash, ecdsa)

(***************************************************************************)
(* TicketPayload: sign_hash, verify, encode, to_ticket_base64,             *)
(* from_ticket_base64.  The operations that sign take the ledger, those    *)
(* that recover take the library as Ecdsa gives it.                        *)
(***************************************************************************)
ErrBase64 == "invalid base64 (URL, nopad)"
ErrSignature == "invalid signature"
ErrPayload == "invalid payload"
ErrRecover == "failed to recover signer"

sign_hash(p, w, ledger) ==
    WalletSignHash(ledger, w, hash_message(verification_message(p)))

\* EnsureSigner without the comparison with the signer the payload claims.
EnsureSignerUnchecked(p, recovered_signer) ==
    IF ~recovered_signer.ok THEN recovered_signer
    ELSE [ok |-> TRUE, value |-> p.signer]

\* signature.recover(hash)?, then ensure!(recovered_signer == self.signer, ...)
EnsureSigner(p, recovered_signer) ==
    IF ~recovered_signer.ok THEN recovered_signer
    ELSE IF recovered_signer.value # p.signer
        THEN Err("recovered signer does not match claim")
    ELSE [ok |-> TRUE, value |-> p.signer]

verify(p, sig, ecdsa) ==
    EnsureSigner(p, SignatureRecover(sig, hash_message(verification_message(p)),
                                     ecdsa))

encode(p, w, ledger) == to_vec(p) \o SignatureToVec(sign_hash(p, w, ledger))

to_ticket_base64(p, w, ledger) == Base64Encode(encode(p, w, ledger))

\* signature_start with 64 in the place of 65.
SignatureStartShort(buf) ==
    IF Len(buf) >= SignatureLen - 1 THEN Len(buf) - (SignatureLen - 1) ELSE 0

\* ticket.len().saturating_sub(65)
signature_start(buf) == IF Len(buf) >= SignatureLen THEN Len(buf) - SignatureLen ELSE 0

\* VerifyStep with the result of verify dropped.
VerifyStepUnchecked(p, sig, v) ==
    IF v = Panic THEN Panic ELSE [ok |-> TRUE, payload |-> p, signature |-> sig]

\* Step 4: verify; the payload and the signature are returned on success, an
\* error of verify is returned in its context, a panic unwinds.
VerifyStep(p, sig, v) ==
    IF v = Panic THEN Panic
    ELSE IF ~v.ok THEN Err(ErrRecover)
    ELSE [ok |-> TRUE, payload |-> p, signature |-> sig]

\* Step 3: the payload is read from the bytes before the signature.
PayloadStep(parsed, sig, ecdsa) ==
    IF ~parsed.ok THEN Err(ErrPayload)
    ELSE VerifyStep(parsed.value, sig, verify(parsed.value, sig, ecdsa))

\* Step 2: the bytes from signature_start on must be the 65 of a signature.
SignatureStep(prefix, sigbuf, ecdsa) ==
    IF Len(sigbuf) # SignatureLen THEN Err(ErrSignature)
    ELSE PayloadStep(from_reader(prefix), SignatureFromBytes(sigbuf), ecdsa)

\* Step 1: base64.
Base64Step(d, ecdsa) ==
    IF ~d.ok THEN Err(ErrBase64)
    ELSE SignatureStep(Take(d.bytes, signature_start(d.bytes)),
                       Drop(d.bytes, signature_start(d.bytes)), ecdsa)

from_ticket_base64(ticket, ecdsa) == Base64Step(Base64Decode(ticket), ecdsa)

(***************************************************************************)
(* impl TryFrom<(u64, u64, u128)> for Subscription.                        *)
(***************************************************************************)
ErrTimestamp == "invalid timestamp"
ErrTryFromInt == "out of range integral type conversion attempted"

SecondsPerDay == 86400
\* Days from 0001-01-01 (day 1) to 1970-01-01.
EpochDaysFromCe == 719163
\* NaiveDate::MAX (+262142-12-31) in days from 0001-01-01.
MaxDaysFromCe == 95745399

\* The closure to_datetime: u64 -> i64 (fails from 2^63 on), then
\* NaiveDateTime::from_timestamp_opt(secs, 0), which splits the seconds into
\* days and seconds of the day and fails when the date is out of range.
to_datetime(t) ==
    IF t[1] >= 128 THEN Err(ErrTryFromInt)
    ELSE LET qr   == DivSmall(t, SecondsPerDay)
             days == ToLen(qr[1])
         IN  IF days < 0 \/ days > MaxDaysFromCe - EpochDaysFromCe
             THEN Err(ErrTimestamp)
             ELSE [ok |-> TRUE,
                   value |-> [days_from_ce |-> days + EpochDaysFromCe, secs |-> qr[2]]]

try_from(from) ==
    LET start == to_datetime(from[1])
        end   == to_datetime(from[2])
    IN  IF ~start.ok THEN start
        ELSE IF ~end.ok THEN end
        ELSE [ok |-> TRUE,
              value |-> [start |-> start.value, end |-> end.value, rate |-> from[3]]]

(***************************************************************************)
(* The inputs of the model.                                                *)
(***************************************************************************)
\* The contract of test_ticket, and a second one.
TestContract ==
    <<231, 241, 114, 94, 119, 52, 206, 40, 143, 131, 103, 225, 187, 20, 62,
      144, 187, 63, 5, 18>>
OtherContract ==
    <<159, 229, 183, 60, 14, 125, 90, 44, 11, 200, 1, 0, 255, 16, 32, 64, 128,
      77, 88, 99>>

\* 1337 (test_ticket), 2^64 - 1, 0, 24, 65536, 2^32, 255, 23, 2^32 - 1: the
\* first five take the five forms of a CBOR unsigned integer (an argument of
\* 2, 8, 0, 1 and 4 bytes).
ChainIdTable ==
    << <<0, 0, 0, 0, 0, 0, 5, 57>>,
       <<255, 255, 255, 255, 255, 255, 255, 255>>,
       <<0, 0, 0, 0, 0, 0, 0, 0>>,
       <<0, 0, 0, 0, 0, 0, 0, 24>>,
       <<0, 0, 0, 0, 0, 1, 0, 0>>,
       <<0, 0, 0, 1, 0, 0, 0, 0>>,
       <<0, 0, 0, 0, 0, 0, 0, 255>>,
       <<0, 0, 0, 0, 0, 0, 0, 23>>,
       <<0, 0, 0, 0, 255, 255, 255, 255>> >>

\* Bound: the number of chain ids of the ticket specifications.
NumChainIds == 5
ChainIds == {ChainIdTable[i] : i \in 1..NumChainIds}

\* The value each optional field takes when present in the ticket
\* specifications: an address that is no wallet's, a two-byte UTF-8 character,
\* 30 bytes (a length with a one-byte argument), a value with a newline, and
\* the empty string.
UserValue == WalletAddresses[3]
NameValue == <<195, 169>>
SubgraphsValue == [i \in 1..30 |-> IF i % 2 = 0 THEN 44 ELSE 96 + (i \div 2)]
DeploymentsValue ==
    <<97, 10, 97, 108, 108, 111, 119, 101, 100, 95, 100, 111, 109, 97, 105,
      110, 115, 58, 32, 98>>
DomainsValue == <<>>

\* Every chain id with every signer and every combination of present and
\* absent optional fields, under the contract of test_ticket.
PresencePayloads ==
    {[chain_id |-> c, contract |-> TestContract, signer |-> WalletAddress(s),
      user |-> u, name |-> n, allowed_subgraphs |-> a1,
      allowed_deployments |-> a2, allowed_domains |-> a3] :
        c \in ChainIds, s \in Wallets,
        u \in {None, Some(UserValue)}, n \in {None, Some(NameValue)},
        a1 \in {None, Some(SubgraphsValue)},
        a2 \in {None, Some(DeploymentsValue)}, a3 \in {None, Some(DomainsValue)}}

\* Every chain id with every signer under the second contract, the name and
\* the domains present or absent.
ContractPayloads ==
    {[chain_id |-> c, contract |-> OtherContract, signer |-> WalletAddress(s),
      user |-> None, name |-> n, allowed_subgraphs |-> None,
      allowed_deployments |-> None, allowed_domains |-> d] :
        c \in ChainIds, s \in Wallets,
        n \in {None, Some(NameValue)}, d \in {None, Some(DomainsValue)}}

Payloads == PresencePayloads \cup ContractPayloads

\* The payload of test_ticket.
TestPayload ==
    [chain_id |-> ChainIdTable[1], contract |-> TestContract,
     signer |-> WalletAddress(1), user |-> None, name |-> None,
     allowed_subgraphs |-> None, allowed_deployments |-> None,
     allowed_domains |-> None]

(***************************************************************************)
(* State.  One ticket is followed through the operations applied to it.    *)
(*   pc         the last operation applied                                 *)
(*   payload    the TicketPayload held by the issuer                       *)
(*   wallet     the signing key                                            *)
(*   signed     the ledger: who has signed which digest with which value   *)
(*   signature  the result of sign_hash(payload, wallet)                   *)
(*   verified   the result of verify(payload, signature)                   *)
(*   other      payload with one optional field removed                    *)
(*   cross      <<verify(other, signature),                                *)
(*                verify(payload, sign_hash(other, wallet))>>              *)
(*   issued     the ticket string as to_ticket_base64 returned it          *)
(*   ticket     the ticket string as the verifier receives it              *)
(*   decoded    the result of from_ticket_base64(ticket)                   *)
(*   message    the result of verification_message(payload)                *)
(*   from       the (start, end, rate) tuple; sub: the result of try_from  *)
(***************************************************************************)
VARIABLES pc, payload, wallet, signed, signature, verified, other, cross,
          issued, ticket, decoded, message, from, sub

vars == <<pc, payload, wallet, signed, signature, verified, other, cross,
          issued, ticket, decoded, message, from, sub>>

NoResult == [ok |-> FALSE, err |-> "not run"]
NoSignature == [r |-> <<>>, s |-> <<>>, v |-> 0]

\* The parts of the state a specification has not set or does not use.
NoTicketState ==
    /\ signed = {}
    /\ signature = NoSignature /\ verified = NoResult
    /\ other = payload /\ cross = <<NoResult, NoResult>>
    /\ issued = <<>> /\ ticket = <<>> /\ decoded = NoResult
NoMessageState == message = <<>>
NoSubState == from = <<>> /\ sub = NoResult

(***************************************************************************)
(* Spec: a payload is signed and verified; then either the signature is    *)
(* tried against the payload without one of its optional fields (and that  *)
(* payload's signature against this one), or the payload is encoded and    *)
(* the ticket decoded.                                                     *)
(***************************************************************************)
OptionalFields ==
    {"user", "name", "allowed_subgraphs", "allowed_deployments", "allowed_domains"}

Init ==
    /\ pc = "new"
    /\ payload \in Payloads
    /\ wallet \in Wallets
    /\ NoTicketState /\ NoMessageState /\ NoSubState

Sign ==
    /\ pc = "new"
    /\ signature' = sign_hash(payload, wallet, signed)
    /\ signed' = Signed(signed, wallet, hash_message(verification_message(payload)))
    /\ pc' = "signed"
    /\ UNCHANGED <<payload, wallet, verified, other, cross, issued, ticket,
                   decoded, message, from, sub>>

Verify ==
    /\ pc = "signed"
    /\ \E u \in UnknownRecoveries :
           verified' = verify(payload, signature, Ecdsa(signed, u))
    /\ pc' = "verified"
    /\ UNCHANGED <<payload, wallet, signed, signature, other, cross, issued,
                   ticket, decoded, message, from, sub>>

Strip ==
    /\ pc = "verified"
    /\ \E f \in OptionalFields :
          /\ IsSome(payload[f])
          /\ other' = [payload EXCEPT ![f] = None]
    /\ signed' = Signed(signed, wallet, hash_message(verification_message(other')))
    /\ \E u1 \in UnknownRecoveries, u2 \in UnknownRecoveries :
           cross' = <<verify(other', signature, Ecdsa(signed', u1)),
                      verify(payload, sign_hash(other', wallet, signed),
                             Ecdsa(signed', u2))>>
    /\ pc' = "stripped"
    /\ UNCHANGED <<payload, wallet, signature, verified, issued, ticket,
                   decoded, message, from, sub>>

Encode ==
    /\ pc = "verified"
    /\ issued' = to_ticket_base64(payload, wallet, signed)
    /\ signed' = Signed(signed, wallet, hash_message(verification_message(payload)))
    /\ ticket' = issued'
    /\ pc' = "encoded"
    /\ UNCHANGED <<payload, wallet, signature, verified, other, cross,
                   decoded, message, from, sub>>

Decode ==
    /\ pc \in {"encoded", "tampered"}
    /\ \E u \in UnknownRecoveries :
           decoded' = from_ticket_base64(ticket, Ecdsa(signed, u))
    /\ pc' = "decoded"
    /\ UNCHANGED <<payload, wallet, signed, signature, verified, other, cross,
                   issued, ticket, message, from, sub>>

Next == Sign \/ Verify \/ Strip \/ Encode \/ Decode

Spec == Init /\ [][Next]_vars

(***************************************************************************)
(* SpecTamper: a ticket is issued, one symbol of it is replaced on the way *)
(* to the verifier, and the verifier decodes it.                           *)
(***************************************************************************)
\* The 64 symbols of the alphabet, and '=' for the bytes outside it.
TamperSymbols == {B64Symbol(v) : v \in 0..63} \cup {61}

\* Bound: the number of payloads (of PayloadTable) whose tickets are tampered.
NumTamperPayloads == 1

\* test_ticket's payload, and one with every optional field present.
PayloadTable ==
    << TestPayload,
       [chain_id |-> ChainIdTable[2], contract |-> OtherContract,
        signer |-> WalletAddress(2), user |-> Some(UserValue),
        name |-> Some(NameValue), allowed_subgraphs |-> Some(SubgraphsValue),
        allowed_deployments |-> Some(DeploymentsValue),
        allowed_domains |-> Some(DomainsValue)],
       [TestPayload EXCEPT !.name = Some(<<97, 98>>), !.chain_id = ChainIdTable[4]] >>

\* The wallet whose address is the payload's signer.
WalletOf(p) == CHOOSE w \in 1..Len(WalletAddresses) : WalletAddress(w) = p.signer

\* The ticket is the first the wallet signs, or the second (the recovery
\* id of the signature is 0 or 1).
InitTamper ==
    /\ pc = "verified"
    /\ payload \in {PayloadTable[i] : i \in 1..NumTamperPayloads}
    /\ wallet = WalletOf(payload)
    /\ \E before \in {{}, Signed({}, wallet, hash_message(<<>>))} :
           /\ signature = sign_hash(payload, wallet, before)
           /\ signed = Signed(before, wallet,
                              hash_message(verification_message(payload)))
    /\ verified = [ok |-> TRUE, value |-> payload.signer]
    /\ other = payload /\ cross = <<NoResult, NoResult>>
    /\ issued = <<>> /\ ticket = <<>> /\ decoded = NoResult
    /\ NoMessageState /\ NoSubState

Tamper ==
    /\ pc = "encoded"
    /\ \E i \in 1..Len(ticket) : \E c \in TamperSymbols \ {ticket[i]} :
           ticket' = [ticket EXCEPT ![i] = c]
    /\ pc' = "tampered"
    /\ UNCHANGED <<payload, wallet, signed, signature, verified, other,
                   cross, issued, decoded, message, from, sub>>

NextTamper == Encode \/ Tamper \/ Decode

SpecTamper == InitTamper /\ [][NextTamper]_vars

(***************************************************************************)
(* SpecDecode: the verifier decodes a string that need not come from       *)
(* to_ticket_base64.  The strings are built from the payloads of           *)
(* PayloadTable: every buffer shorter than a signature, strings that are   *)
(* not base64, and every pairing of a payload part (well-formed in each    *)
(* form the reader accepts, or malformed) with a signature part (the       *)
(* signer's, with each kind of recovery byte, or somebody else's).         *)
(***************************************************************************)
\* Bound: the number of payloads (of PayloadTable) the strings are built from.
NumDecodePayloads == 2
DecodePayloads == {PayloadTable[i] : i \in 1..NumDecodePayloads}

\* The ledger after the first k signatures of the wallets over the payloads:
\* each wallet signs each payload, the first payload first.
RECURSIVE LedgerOf(_)
LedgerOf(k) ==
    IF k = 0 THEN {}
    ELSE Signed(LedgerOf(k - 1), ((k - 1) % NumWallets) + 1,
                hash_message(verification_message(
                    PayloadTable[((k - 1) \div NumWallets) + 1])))

DecodeLedger == LedgerOf(NumWallets * NumDecodePayloads)

\* A payload whose signer is a key outside the model, and a signature that
\* no wallet of the model has made.
StrangerPayload == [TestPayload EXCEPT !.signer = StrangerAddress]
StrangerSignature == SignatureValue(200)

\* The key of field i in one of the forms the reader accepts: the name as
\* text or as bytes, the index, or none (the elements of an array).
EntryKey(form, i) ==
    IF form = "text" THEN CborText(FieldNames[i])
    ELSE IF form = "bytes" THEN CborBytes(FieldNames[i])
    ELSE IF form = "index" THEN <<i - 1>>
    ELSE <<>>

\* The entries of p with keys of the given form; an absent optional field
\* is left out, or written as null when nulls is TRUE.
MapEntries(p, form, nulls) ==
    LET opt(i, o, enc) == IF IsSome(o) THEN EntryKey(form, i) \o enc
                          ELSE IF nulls THEN EntryKey(form, i) \o <<246>> ELSE <<>>
        encB(o) == IF IsSome(o) THEN CborBytes(Unwrap(o)) ELSE <<>>
        encT(o) == IF IsSome(o) THEN CborText(Unwrap(o)) ELSE <<>>
    IN  EntryKey(form, 1) \o CborUint(p.chain_id)
        \o EntryKey(form, 2) \o CborBytes(p.contract)
        \o EntryKey(form, 3) \o CborBytes(p.signer)
        \o opt(4, p.user, encB(p.user))
        \o opt(5, p.name, encT(p.name))
        \o opt(6, p.allowed_subgraphs, encT(p.allowed_subgraphs))
        \o opt(7, p.allowed_deployments, encT(p.allowed_deployments))
        \o opt(8, p.allowed_domains, encT(p.allowed_domains))

\* Encodings of p, other than to_vec(p), that from_reader reads as p.
WellFormedBodies(p) ==
    { to_vec(p),
      CborHead(5, NumPresent(p)) \o MapEntries(p, "bytes", FALSE),
      CborHead(5, NumPresent(p)) \o MapEntries(p, "index", FALSE),
      CborHead(5, NumFields) \o MapEntries(p, "text", TRUE),
      <<191>> \o MapEntries(p, "text", FALSE) \o <<255>>,
      CborHead(4, NumFields) \o MapEntries(p, "array", TRUE),
      <<217, 217, 247>> \o to_vec(p),
      CborHead(5, NumPresent(p) + 1) \o MapEntries(p, "text", FALSE)
          \o <<97, 120, 130, 1, 161, 2, 245>>,
      CborHead(5, NumPresent(p) + 1) \o MapEntries(p, "text", FALSE)
          \o <<97, 120, 191, 1, 159, 255, 255>> }

\* Byte strings that from_reader rejects.
MalformedBodies(p) ==
    LET body == to_vec(p)
    IN  { <<>>, <<255>>, <<160>>, Take(body, 1), Take(body, Len(body) - 1),
          body \o <<0>>, [body EXCEPT ![1] = 128 + NumPresent(p)],
          [body EXCEPT ![1] = body[1] + 1],
          CborHead(5, NumPresent(p) + 1) \o MapEntries(p, "text", FALSE)
              \o EntryKey("text", 1) \o CborUint(p.chain_id),
          [body EXCEPT ![11] = 32],
          CborHead(5, NumPresent(p) + 1) \o MapEntries(p, "text", FALSE)
              \o <<97, 120, 191, 1, 255>> }

\* 65-byte signature parts: the signer's signature, the same with another
\* recovery byte, the same with s negated and the recovery id flipped, and
\* signatures that are not the signer's over this payload.
RecoveryBytes == {0, 1, 2, 26, 27, 28, 29, 34, 35, 36, 37, 255}

SignatureParts(p) ==
    LET made == sign_hash(p, WalletOf(p), DecodeLedger)
        sig == SignatureToVec(made)
    IN  {[sig EXCEPT ![SignatureLen] = v] : v \in RecoveryBytes}
        \cup {SignatureToVec([r |-> made.r, s |-> NegateS(made.s), v |-> 55 - made.v])}
        \cup {Zeros(SignatureLen), SignatureToVec(StrangerSignature),
              [i \in 1..SignatureLen |-> 255]}
        \cup {SignatureToVec(sign_hash(p, w, DecodeLedger)) : w \in Wallets}
        \cup {SignatureToVec(sign_hash(q, WalletOf(p), DecodeLedger)) :
                  q \in DecodePayloads}

DecodeBuffers ==
    UNION {{body \o sig : body \in WellFormedBodies(p) \cup MalformedBodies(p),
                          sig \in SignatureParts(p)} : p \in DecodePayloads}
    \cup UNION {{Take(encode(p, WalletOf(p), DecodeLedger), n) :
                     n \in 0..(SignatureLen - 1)} : p \in DecodePayloads}
    \cup {Drop(encode(p, WalletOf(p), DecodeLedger), Len(to_vec(p)) + 1) :
              p \in DecodePayloads}
    \cup {to_vec(StrangerPayload) \o SignatureToVec(StrangerSignature)}

\* Strings that are not base64url without padding, made from a ticket t: a
\* padding character, a symbol of the standard alphabet, a length of 1 mod 4,
\* non-zero trailing bits.
NotBase64(t) ==
    { t \o <<61>>, [t EXCEPT ![1] = 43], [t EXCEPT ![Len(t)] = 47],
      Take(t, 4 * (Len(t) \div 4) + 1), Take(t, 4 * (Len(t) \div 4) - 2) \o <<66>>,
      <<65>>, <<65, 66>>, <<32>> }

DecodeInputs ==
    {Base64Encode(buf) : buf \in DecodeBuffers}
    \cup UNION {NotBase64(to_ticket_base64(p, WalletOf(p), DecodeLedger)) :
                   p \in DecodePayloads}

InitDecode ==
    /\ pc = "encoded"
    /\ ticket \in DecodeInputs
    /\ issued = <<>>
    /\ payload = TestPayload /\ wallet = 1
    /\ signed = DecodeLedger
    /\ signature = NoSignature /\ verified = NoResult /\ decoded = NoResult
    /\ other = payload /\ cross = <<NoResult, NoResult>>
    /\ NoMessageState /\ NoSubState

SpecDecode == InitDecode /\ [][Decode]_vars

(***************************************************************************)
(* SpecMessage: the canonical message of a payload is rendered.  The       *)
(* payloads differ from one another in any number of fields: in the chain  *)
(* id, the contract, the signer or the user, and in each of the four       *)
(* string fields, absent or any string of MessageStrings.                  *)
(***************************************************************************)
\* "a", "b", "a\nallowed_domains: b" (a value with a newline), "a,b", "".
StringTable ==
    << <<97>>, <<98>>,
       <<97, 10, 97, 108, 108, 111, 119, 101, 100, 95, 100, 111, 109, 97, 105,
         110, 115, 58, 32, 98>>,
       <<97, 44, 98>>, <<>> >>

\* Bound: the number of strings (of StringTable) a string field may hold.
NumStrings == 3
MessageStrings == {StringTable[i] : i \in 1..NumStrings}
OptStrings == {None} \cup {Some(s) : s \in MessageStrings}

\* <<chain_id, contract, signer, user>>: those of test_ticket, and each one
\* changed in turn.
MessageHeads ==
    { <<ChainIdTable[1], TestContract, WalletAddress(1), None>>,
      <<ChainIdTable[2], TestContract, WalletAddress(1), None>>,
      <<ChainIdTable[1], OtherContract, WalletAddress(1), None>>,
      <<ChainIdTable[1], TestContract, WalletAddresses[2], None>>,
      <<ChainIdTable[1], TestContract, WalletAddress(1), Some(WalletAddresses[3])>>,
      <<ChainIdTable[1], TestContract, WalletAddress(1), Some(WalletAddresses[1])>> }

MessagePayloads ==
    {[chain_id |-> h[1], contract |-> h[2], signer |-> h[3], user |-> h[4],
      name |-> n, allowed_subgraphs |-> a1, allowed_deployments |-> a2,
      allowed_domains |-> a3] :
        h \in MessageHeads, n \in OptStrings, a1 \in OptStrings,
        a2 \in OptStrings, a3 \in OptStrings}

InitMessage ==
    /\ pc = "new"
    /\ payload \in MessagePayloads
    /\ wallet = 1
    /\ NoTicketState /\ NoMessageState /\ NoSubState

Render ==
    /\ pc = "new"
    /\ message' = verification_message(payload)
    /\ pc' = "rendered"
    /\ UNCHANGED <<payload, wallet, signed, signature, verified, other,
                   cross, issued, ticket, decoded, from, sub>>

SpecMessage == InitMessage /\ [][Render]_vars

(***************************************************************************)
(* SpecSubscription: a (start, end, rate) tuple is converted.              *)
(***************************************************************************)
\* 0, 1, the last second of +262142-12-31 and the one after it, 2^63 - 1,
\* 2^63, 2^64 - 1, 86399, 86400, 1700000000, 2^31.
TimestampTable ==
    << <<0, 0, 0, 0, 0, 0, 0, 0>>,
       <<0, 0, 0, 0, 0, 0, 0, 1>>,
       <<0, 0, 7, 119, 154, 10, 107, 127>>,
       <<0, 0, 7, 119, 154, 10, 107, 128>>,
       <<127, 255, 255, 255, 255, 255, 255, 255>>,
       <<128, 0, 0, 0, 0, 0, 0, 0>>,
       <<255, 255, 255, 255, 255, 255, 255, 255>>,
       <<0, 0, 0, 0, 0, 1, 81, 127>>,
       <<0, 0, 0, 0, 0, 1, 81, 128>>,
       <<0, 0, 0, 0, 101, 83, 241, 0>>,
       <<0, 0, 0, 0, 128, 0, 0, 0>> >>

\* Bound: the number of timestamps (of TimestampTable) start and end range over.
NumTimestamps == 9
Timestamps == {TimestampTable[i] : i \in 1..NumTimestamps}

\* u128 rates, as 16 big-endian bytes: 0, 2^128 - 1, 1.
RateTable == <<Zeros(16), [i \in 1..16 |-> 255], Zeros(15) \o <<1>> >>

\* Bound: the number of rates (of RateTable).
NumRates == 2
Rates == {RateTable[i] : i \in 1..NumRates}

InitSubscription ==
    /\ pc = "new"
    /\ from \in Timestamps \X Timestamps \X Rates
    /\ sub = NoResult
    /\ payload = TestPayload /\ wallet = 1
    /\ NoTicketState /\ NoMessageState

Convert ==
    /\ pc = "new"
    /\ sub' = try_from(from)
    /\ pc' = "converted"
    /\ UNCHANGED <<payload, wallet, signed, signature, verified, other,
                   cross, issued, ticket, decoded, message, from>>

SpecSubscription == InitSubscription /\ [][Convert]_vars

(***************************************************************************)
(* Properties.                                                             *)
(***************************************************************************)
\* The bytes the ticket decodes to (<<>> when it is not base64).
TicketBytes ==
    IF Base64Decode(ticket).ok THEN Base64Decode(ticket).bytes ELSE <<>>

\* The bytes before the last 65, and the last 65.
PayloadPart == Take(TicketBytes, Len(TicketBytes) - SignatureLen)
SignaturePart == Drop(TicketBytes, Len(TicketBytes) - SignatureLen)

\* C1 (round trip): when the signer of the payload is the address of the
\* signing key, decoding the ticket that to_ticket_base64 produced succeeds
\* and returns the payload field for field and the signature that sign_hash
\* produced, and the address recovered from that signature is the key's,
\* whatever the library answers for the signatures the key has not made.
RoundTrip ==
    (pc = "decoded" /\ payload.signer = WalletAddress(wallet)) =>
        /\ decoded.ok
        /\ decoded.payload = payload
        /\ decoded.signature = signature
        /\ \A u \in UnknownRecoveries :
               SignatureRecover(decoded.signature,
                                hash_message(verification_message(decoded.payload)),
                                Ecdsa(signed, u))
                   = [ok |-> TRUE, value |-> WalletAddress(wallet)]

\* A ticket with optional fields present and absent, an 8-byte chain id and
\* the second contract has made the round trip.
RoundTripDone ==
    /\ pc = "decoded"
    /\ payload.signer = WalletAddress(wallet)
    /\ payload.chain_id = ChainIdTable[2]
    /\ payload.contract = OtherContract
    /\ IsSome(payload.name) /\ IsSome(payload.allowed_domains)
    /\ ~IsSome(payload.user) /\ ~IsSome(payload.allowed_subgraphs)
    /\ decoded.ok

\* Whether sig is the signature a in one of the forms that recover the same
\* key: a itself with its recovery id written 0/1, 27/28 or from 35 on, or
\* a with s negated and the other recovery id.
SameSignature(a, sig) ==
    /\ sig.r = a.r
    /\ \/ sig.s = a.s /\ sig.v \in {a.v - 27, a.v} \cup {v \in 35..255 : (v - 1) % 2 = a.v - 27}
       \/ /\ sig.s = NegateS(a.s)
          /\ sig.v \in {28 - a.v, 55 - a.v} \cup {v \in 35..255 : v % 2 = a.v - 27}

\* Whether the ledger shows that the wallet whose address is the signer of p
\* has signed the message of p, with sig as the signature.
SignedBySigner(p, sig) ==
    \E e \in signed :
        /\ WalletAddress(e.wallet) = p.signer
        /\ e.hash = hash_message(verification_message(p))
        /\ SameSignature(e.signature, sig)

\* C2 (authenticity gate): whatever the input string, when decoding returns
\* a payload and a signature, the signature is the last 65 bytes of the
\* decoded buffer, the payload is what the bytes before them deserialize to,
\* and the signature is one that the payload's signer has made over the
\* payload's message, or the signer is a key outside the model and the
\* library has recovered it.
AuthenticityGate ==
    (pc = "decoded" /\ decoded.ok) =>
        /\ Base64Decode(ticket).ok
        /\ Len(TicketBytes) >= SignatureLen
        /\ SignatureToVec(decoded.signature) = SignaturePart
        /\ from_reader(PayloadPart) = [ok |-> TRUE, value |-> decoded.payload]
        /\ \/ SignedBySigner(decoded.payload, decoded.signature)
           \/ decoded.payload.signer = StrangerAddress

\* A string that to_ticket_base64 does not produce has been decoded to a
\* payload that a wallet of the model has signed.
ForeignTicketAccepted ==
    /\ pc = "decoded"
    /\ decoded.ok
    /\ decoded.payload.signer # StrangerAddress
    /\ \A w \in Wallets : to_ticket_base64(decoded.payload, w, signed) # ticket

\* C3 (signer binding): a payload whose signer is not the address of the
\* signing key is signed and encoded all the same, but verify fails with
\* "recovered signer does not match claim" and decoding the ticket fails.
SignerBinding ==
    payload.signer # WalletAddress(wallet) =>
        /\ pc \in {"verified", "stripped", "encoded", "decoded"} =>
               /\ Len(signature.r) = ScalarLen /\ Len(signature.s) = ScalarLen
               /\ verified = Err("recovered signer does not match claim")
        /\ pc \in {"encoded", "decoded"} =>
               /\ Base64Decode(issued).ok
               /\ Base64Decode(issued).bytes = to_vec(payload) \o SignatureToVec(signature)
        /\ pc = "decoded" => decoded = Err(ErrRecover)

\* A ticket signed by a key other than the payload's signer has been decoded.
OtherKeyTicketDecoded ==
    /\ pc = "decoded"
    /\ payload.signer # WalletAddress(wallet)
    /\ ticket = issued /\ ticket # <<>>
    /\ ~decoded.ok

\* C4 (tamper sensitivity): a ticket with one symbol replaced never decodes
\* to Ok; it fails with one of the four errors.
TamperRejected ==
    (pc = "decoded" /\ ticket # issued) =>
        /\ ~decoded.ok
        /\ decoded.err \in {ErrBase64, ErrSignature, ErrPayload, ErrRecover}

\* C5 (message injectivity): a payload that differs from this one in any
\* field has a different message, whatever the strings.
MessageInjective ==
    pc = "rendered" =>
        \A q \in MessagePayloads : q # payload => verification_message(q) # message

\* C6 (short buffer): when the string is base64, decoding fails with
\* "invalid signature" exactly when the decoded buffer has fewer than 65
\* bytes.
ShortBufferRejected ==
    (pc = "decoded" /\ Base64Decode(ticket).ok) =>
        (decoded = Err(ErrSignature) <=> Len(TicketBytes) < SignatureLen)

\* A buffer of 64 bytes has been rejected.
ShortBufferDecoded ==
    /\ pc = "decoded"
    /\ Base64Decode(ticket).ok
    /\ Len(TicketBytes) = SignatureLen - 1
    /\ decoded = Err(ErrSignature)

\* C7 (step order): the result is the error of the earliest step that
\* fails: base64, then the signature's length, then the payload, then the
\* signer; and it is Ok when none fails.
StepOrder ==
    pc = "decoded" =>
        IF ~Base64Decode(ticket).ok THEN decoded = Err(ErrBase64)
        ELSE IF Len(TicketBytes) < SignatureLen THEN decoded = Err(ErrSignature)
        ELSE IF ~from_reader(PayloadPart).ok THEN decoded = Err(ErrPayload)
        ELSE decoded.ok \/ decoded = Err(ErrRecover)

\* The last second chrono represents (TimestampTable[3]) bounds the
\* representable instants.
Representable(t) == LessEq(t, TimestampTable[3])

\* 1970-01-01T00:00:00.
UnixEpoch == [days_from_ce |-> EpochDaysFromCe, secs |-> 0]

\* C8 (Subscription conversion): the conversion succeeds exactly when start
\* and end are representable, with the rate unchanged and 0 as the epoch;
\* otherwise it fails with "invalid timestamp".
ConversionCases ==
    pc = "converted" =>
        IF Representable(from[1]) /\ Representable(from[2])
        THEN /\ sub.ok
             /\ sub.value.rate = from[3]
             /\ from[1] = Zeros(8) => sub.value.start = UnixEpoch
             /\ from[2] = Zeros(8) => sub.value.end = UnixEpoch
        ELSE sub = Err(ErrTimestamp)

\* Lexicographic order of strings.
Before(s, t) ==
    \E k \in 1..(Min(Len(s), Len(t)) + 1) :
        /\ \A j \in 1..(k - 1) : s[j] = t[j]
        /\ IF k > Len(s) THEN k <= Len(t)
           ELSE k <= Len(t) /\ s[k] < t[k]

\* The fields in the alphabetical order of their names.
Alphabetical ==
    [k \in 1..NumFields |->
        CHOOSE i \in 1..NumFields :
            Cardinality({j \in 1..NumFields : Before(FieldNames[j], FieldNames[i])})
                = k - 1]

\* The record field of field i.
FieldLabel(i) ==
    <<"chain_id", "contract", "signer", "user", "name", "allowed_subgraphs",
      "allowed_deployments", "allowed_domains">>[i]

\* The line "<field_name>: <value>\n" of field i, nothing for an absent one.
FieldLine(p, i) ==
    LET name == FieldNames[i] \o <<58, 32>>
    IN  IF i = 1 THEN name \o Decimal(p.chain_id) \o <<10>>
        ELSE IF i = 2 THEN name \o AddressDebug(p.contract) \o <<10>>
        ELSE IF i = 3 THEN name \o AddressDebug(p.signer) \o <<10>>
        ELSE IF ~IsSome(p[FieldLabel(i)]) THEN <<>>
        ELSE IF i = 4 THEN name \o AddressDebug(Unwrap(p.user)) \o <<10>>
        ELSE name \o Unwrap(p[FieldLabel(i)]) \o <<10>>

\* C9 (message layout): the message is the lines of the present fields in
\* the alphabetical order of the field names; chain_id, contract and signer
\* always have a line, an absent optional field has none.
MessageLayout ==
    pc = "rendered" =>
        message = FieldLine(payload, Alphabetical[1]) \o FieldLine(payload, Alphabetical[2])
                  \o FieldLine(payload, Alphabetical[3]) \o FieldLine(payload, Alphabetical[4])
                  \o FieldLine(payload, Alphabetical[5]) \o FieldLine(payload, Alphabetical[6])
                  \o FieldLine(payload, Alphabetical[7]) \o FieldLine(payload, Alphabetical[8])

\* The message of a payload with every optional field present has been
\* rendered.
FullMessageRendered ==
    /\ pc = "rendered"
    /\ \A f \in OptionalFields : IsSome(payload[f])
    /\ payload.allowed_deployments # payload.allowed_domains
    /\ message # <<>>

====
